---- MODULE Spec2Model ----
(***************************************************************************)
(* Hook dispatch of the nRF 802.15.4 radio driver core                     *)
(* (src/src/nrf_802154_core_hooks.c).                                      *)
(*                                                                         *)
(* Nine entry points walk nine constant tables of function pointers.  The  *)
(* tables are assembled by the preprocessor from four feature flags.  Each *)
(* entry point is a for loop over its table: it stops at the table's end   *)
(* or at a NULL entry, calls the entry, and (for the entry points that     *)
(* return bool) stops as soon as a hook returns false.                     *)
(*                                                                         *)
(* The build configuration is chosen in Init and never changes.  One loop  *)
(* iteration is one step, so that the order of the hook calls, the value   *)
(* of the loop index and the running result are all visible.               *)
(***************************************************************************)
EXTENDS Integers, Sequences, FiniteSets, TLC

\* Opaque arguments (frame pointers, termination levels, originators,
\* notify functions, error codes, priorities) range over 0..MaxArg.
MaxArg == 1

ArgVals == 0 .. MaxArg

VARIABLES
    NRF_802154_CSMA_CA_ENABLED,      \* nrf_802154_config.h flag
    NRF_802154_ACK_TIMEOUT_ENABLED,  \* nrf_802154_config.h flag
    NRF_802154_DELAYED_TRX_ENABLED,  \* nrf_802154_config.h flag
    NRF_802154_IFS_ENABLED,          \* nrf_802154_config.h flag
    pc,       \* "idle": no entry point is executing; "loop"; "return"
    chan,     \* the entry point executing (or the last one that executed)
    args,     \* the arguments the caller passed to it
    i,        \* the loop index (0-based, as in the C code)
    result,   \* the local variable `result` of the bool entry points
    calls,    \* the hook calls made by this call so far, in order
    retval,   \* <<>> while running / for a void function; <<b>> once a bool function returned b
    stack,    \* the suspended calls whose current hook has entered an entry point again
    reentered, \* a nested call has returned during the current outermost call
    prev      \* history: the outcome of one earlier call (its channel, hook calls and result)

flags == << NRF_802154_CSMA_CA_ENABLED, NRF_802154_ACK_TIMEOUT_ENABLED,
            NRF_802154_DELAYED_TRX_ENABLED, NRF_802154_IFS_ENABLED >>

vars == << NRF_802154_CSMA_CA_ENABLED, NRF_802154_ACK_TIMEOUT_ENABLED,
           NRF_802154_DELAYED_TRX_ENABLED, NRF_802154_IFS_ENABLED,
           pc, chan, args, i, result, calls, retval, stack, reentered, prev >>

\* What a step of the caller's own call leaves alone
context == << stack, reentered, prev >>

NULL == "NULL"

\* `#if FLAG  hook,  #endif` inside an array initializer
IfEnabled(flag, hook) == IF flag THEN << hook >> ELSE << >>

----------------------------------------------------------------------------
\* The hook tables

\* Mutant: the ACK-timeout entry placed before the CSMA/CA entry
m_abort_hooks_AckFirst ==
    IfEnabled(NRF_802154_ACK_TIMEOUT_ENABLED, "nrf_802154_ack_timeout_abort")
    \o IfEnabled(NRF_802154_CSMA_CA_ENABLED, "nrf_802154_csma_ca_abort")
    \o IfEnabled(NRF_802154_DELAYED_TRX_ENABLED, "nrf_802154_delayed_trx_abort")
    \o IfEnabled(NRF_802154_IFS_ENABLED, "nrf_802154_ifs_abort")
    \o << "nrf_802154_tx_timeout_abort" >>

\* Mutant: the TX-timeout entry replaced by a NULL terminator
m_abort_hooks_NoTxTimeout ==
    IfEnabled(NRF_802154_CSMA_CA_ENABLED, "nrf_802154_csma_ca_abort")
    \o IfEnabled(NRF_802154_ACK_TIMEOUT_ENABLED, "nrf_802154_ack_timeout_abort")
    \o IfEnabled(NRF_802154_DELAYED_TRX_ENABLED, "nrf_802154_delayed_trx_abort")
    \o IfEnabled(NRF_802154_IFS_ENABLED, "nrf_802154_ifs_abort")
    \o << NULL >>

\* Mutant: the IFS entry without its #if
m_abort_hooks_IfsAlways ==
    IfEnabled(NRF_802154_CSMA_CA_ENABLED, "nrf_802154_csma_ca_abort")
    \o IfEnabled(NRF_802154_ACK_TIMEOUT_ENABLED, "nrf_802154_ack_timeout_abort")
    \o IfEnabled(NRF_802154_DELAYED_TRX_ENABLED, "nrf_802154_delayed_trx_abort")
    \o << "nrf_802154_ifs_abort" >>
    \o << "nrf_802154_tx_timeout_abort" >>

m_abort_hooks ==
    IfEnabled(NRF_802154_CSMA_CA_ENABLED, "nrf_802154_csma_ca_abort")
    \o IfEnabled(NRF_802154_ACK_TIMEOUT_ENABLED, "nrf_802154_ack_timeout_abort")
    \o IfEnabled(NRF_802154_DELAYED_TRX_ENABLED, "nrf_802154_delayed_trx_abort")
    \o IfEnabled(NRF_802154_IFS_ENABLED, "nrf_802154_ifs_abort")
    \o << "nrf_802154_tx_timeout_abort" >>

\* Mutant: the CSMA/CA entry under the ACK-timeout flag
m_pre_transmission_hooks_WrongFlag ==
    IfEnabled(NRF_802154_ACK_TIMEOUT_ENABLED, "nrf_802154_csma_ca_pretransmission")
    \o IfEnabled(NRF_802154_IFS_ENABLED, "nrf_802154_ifs_pretransmission")
    \o << NULL >>

m_pre_transmission_hooks ==
    IfEnabled(NRF_802154_CSMA_CA_ENABLED, "nrf_802154_csma_ca_pretransmission")
    \o IfEnabled(NRF_802154_IFS_ENABLED, "nrf_802154_ifs_pretransmission")
    \o << NULL >>

\* Mutant: the TX-timeout entry under the IFS flag, NULL-terminated like the other tables
m_transmission_ready_hooks_Guarded ==
    IfEnabled(NRF_802154_IFS_ENABLED, "nrf_802154_tx_timeout_transmission_ready")
    \o << NULL >>

m_transmission_ready_hooks ==
    << "nrf_802154_tx_timeout_transmission_ready" >>

\* Mutant: the IFS entry without its #if
m_transmitted_hooks_IfsAlways ==
    IfEnabled(NRF_802154_ACK_TIMEOUT_ENABLED, "nrf_802154_ack_timeout_transmitted_hook")
    \o << "nrf_802154_ifs_transmitted_hook" >>
    \o << NULL >>

m_transmitted_hooks ==
    IfEnabled(NRF_802154_ACK_TIMEOUT_ENABLED, "nrf_802154_ack_timeout_transmitted_hook")
    \o IfEnabled(NRF_802154_IFS_ENABLED, "nrf_802154_ifs_transmitted_hook")
    \o << NULL >>

\* Mutant: the two entries in the opposite order
m_tx_failed_hooks_AckFirst ==
    IfEnabled(NRF_802154_ACK_TIMEOUT_ENABLED, "nrf_802154_ack_timeout_tx_failed_hook")
    \o IfEnabled(NRF_802154_CSMA_CA_ENABLED, "nrf_802154_csma_ca_tx_failed_hook")
    \o << NULL >>

m_tx_failed_hooks ==
    IfEnabled(NRF_802154_CSMA_CA_ENABLED, "nrf_802154_csma_ca_tx_failed_hook")
    \o IfEnabled(NRF_802154_ACK_TIMEOUT_ENABLED, "nrf_802154_ack_timeout_tx_failed_hook")
    \o << NULL >>

\* Mutant: the ACK-timeout entry without its #if
m_tx_started_hooks_AckAlways ==
    IfEnabled(NRF_802154_CSMA_CA_ENABLED, "nrf_802154_csma_ca_tx_started_hook")
    \o << "nrf_802154_ack_timeout_tx_started_hook" >>
    \o << NULL >>

m_tx_started_hooks ==
    IfEnabled(NRF_802154_CSMA_CA_ENABLED, "nrf_802154_csma_ca_tx_started_hook")
    \o IfEnabled(NRF_802154_ACK_TIMEOUT_ENABLED, "nrf_802154_ack_timeout_tx_started_hook")
    \o << NULL >>

\* Mutant: the delayed-TRX entry under the ACK-timeout flag
m_rx_started_hooks_WrongFlag ==
    IfEnabled(NRF_802154_ACK_TIMEOUT_ENABLED, "nrf_802154_delayed_trx_rx_started_hook")
    \o << NULL >>

m_rx_started_hooks ==
    IfEnabled(NRF_802154_DELAYED_TRX_ENABLED, "nrf_802154_delayed_trx_rx_started_hook")
    \o << NULL >>

m_rx_ack_started_hooks ==
    IfEnabled(NRF_802154_ACK_TIMEOUT_ENABLED, "nrf_802154_ack_timeout_rx_ack_started_hook")
    \o << NULL >>

m_prio_changed_hooks ==
    IfEnabled(NRF_802154_CSMA_CA_ENABLED, "nrf_802154_csma_ca_prio_changed_hook")
    \o << NULL >>

----------------------------------------------------------------------------
\* The dispatch loops

\* What a read past the end of a table yields: not an entry of the table
OUT_OF_BOUNDS == "OUT_OF_BOUNDS"

\* table[i] with the C code's 0-based index
At(table, idx) == IF idx < Len(table) THEN table[idx + 1] ELSE OUT_OF_BOUNDS

\* Mutant: the loop bound one too large (`i <= sizeof ...`)
NbHooks_OffByOne(table) == Len(table) + 1

\* sizeof(table) / sizeof(table[0])
NbHooks(table) == Len(table)

\* Mutant: the loop index kept from the previous call (a static `i` set once)
Begin_StaleIndex(ch, a) ==
    /\ pc = "idle"
    /\ pc' = "loop"
    /\ chan' = ch
    /\ args' = a
    /\ i' = i
    /\ result' = TRUE
    /\ calls' = << >>
    /\ retval' = << >>
    /\ reentered' = FALSE
    /\ UNCHANGED << flags, stack >>

\* The caller enters an entry point: `bool result = true;` and `i = 0`.
Begin(ch, a) ==
    /\ pc = "idle"
    /\ pc' = "loop"
    /\ chan' = ch
    /\ args' = a
    /\ i' = 0
    /\ result' = TRUE
    /\ calls' = << >>
    /\ retval' = << >>
    /\ reentered' = FALSE
    /\ UNCHANGED << flags, stack >>

Enter(ch, a) ==
    /\ Begin(ch, a)
    /\ UNCHANGED prev

\* `i < sizeof(table) / sizeof(table[0])` is false: the for loop ends.
LoopEnd(table) ==
    /\ pc = "loop"
    /\ ~ (i < NbHooks(table))
    /\ pc' = "return"
    /\ UNCHANGED << flags, context, chan, args, i, result, calls, retval >>

\* Mutant: the NULL test not leaving the loop (nor advancing the index)
NullBreak_Spin(table) ==
    /\ pc = "loop"
    /\ i < NbHooks(table)
    /\ At(table, i) = NULL
    /\ UNCHANGED << flags, context, pc, chan, args, i, result, calls, retval >>

\* `if (table[i] == NULL) break;`
NullBreak(table) ==
    /\ pc = "loop"
    /\ i < NbHooks(table)
    /\ At(table, i) = NULL
    /\ pc' = "return"
    /\ UNCHANGED << flags, context, chan, args, i, result, calls, retval >>

Reverse(s) == [ k \in 1 .. Len(s) |-> s[Len(s) + 1 - k] ]

\* Mutant: the hook called with its arguments in the opposite order
CallBoolHook_SwappedArgs(table) ==
    /\ pc = "loop"
    /\ i < NbHooks(table)
    /\ At(table, i) # NULL
    /\ \E r \in BOOLEAN :
          /\ calls' = Append(calls, [hook |-> At(table, i), args |-> Reverse(args), ret |-> r])
          /\ result' = r
          /\ IF ~ r
                THEN pc' = "return" /\ i' = i
                ELSE pc' = "loop" /\ i' = i + 1
    /\ UNCHANGED << flags, context, chan, args, retval >>

\* Mutant: the loop without `if (!result) break;`
CallBoolHook_NoBreak(table) ==
    /\ pc = "loop"
    /\ i < NbHooks(table)
    /\ At(table, i) # NULL
    /\ \E r \in BOOLEAN :
          /\ calls' = Append(calls, [hook |-> At(table, i), args |-> args, ret |-> r])
          /\ result' = r
    /\ i' = i + 1
    /\ UNCHANGED << flags, context, pc, chan, args, retval >>

\* `result = table[i](args); if (!result) break;` then `i++`
\* The hook is external code: it returns either value.
CallBoolHook(table) ==
    /\ pc = "loop"
    /\ i < NbHooks(table)
    /\ At(table, i) # NULL
    /\ \E r \in BOOLEAN :
          /\ calls' = Append(calls, [hook |-> At(table, i), args |-> args, ret |-> r])
          /\ result' = r
          /\ IF ~ r
                THEN pc' = "return" /\ i' = i
                ELSE pc' = "loop" /\ i' = i + 1
    /\ UNCHANGED << flags, context, chan, args, retval >>

\* Mutant: the void loop leaving after its first call
CallVoidHook_BreakAfterCall(table) ==
    /\ pc = "loop"
    /\ i < NbHooks(table)
    /\ At(table, i) # NULL
    /\ calls' = Append(calls, [hook |-> At(table, i), args |-> args])
    /\ pc' = "return"
    /\ UNCHANGED << flags, context, i, chan, args, result, retval >>

\* `table[i](args);` then `i++`
CallVoidHook(table) ==
    /\ pc = "loop"
    /\ i < NbHooks(table)
    /\ At(table, i) # NULL
    /\ calls' = Append(calls, [hook |-> At(table, i), args |-> args])
    /\ i' = i + 1
    /\ UNCHANGED << flags, context, pc, chan, args, result, retval >>

\* Mutant: `return true;`
ReturnResult_AlwaysTrue ==
    /\ pc = "return"
    /\ stack = << >>
    /\ pc' = "idle"
    /\ retval' = << TRUE >>
    /\ UNCHANGED << flags, context, chan, args, i, result, calls >>

\* `return result;`
ReturnResult ==
    /\ pc = "return"
    /\ stack = << >>
    /\ pc' = "idle"
    /\ retval' = << result >>
    /\ UNCHANGED << flags, context, chan, args, i, result, calls >>

\* the end of a void function
ReturnVoid ==
    /\ pc = "return"
    /\ stack = << >>
    /\ pc' = "idle"
    /\ retval' = << >>
    /\ UNCHANGED << flags, context, chan, args, i, result, calls >>

BoolLoop(ch, table) ==
    /\ chan = ch
    /\ \/ LoopEnd(table)
       \/ NullBreak(table)
       \/ CallBoolHook(table)
       \/ ReturnResult

VoidLoop(ch, table) ==
    /\ chan = ch
    /\ \/ LoopEnd(table)
       \/ NullBreak(table)
       \/ CallVoidHook(table)
       \/ ReturnVoid

----------------------------------------------------------------------------
\* The nine entry points

nrf_802154_core_hooks_terminate ==
    \/ \E term_lvl \in ArgVals, req_orig \in ArgVals :
          Enter("terminate", << term_lvl, req_orig >>)
    \/ BoolLoop("terminate", m_abort_hooks)

nrf_802154_core_hooks_pre_transmission ==
    \/ \E p_frame \in ArgVals, cca \in BOOLEAN, notify_function \in ArgVals :
          Enter("pre_transmission", << p_frame, cca, notify_function >>)
    \/ BoolLoop("pre_transmission", m_pre_transmission_hooks)

nrf_802154_core_hooks_transmission_ready ==
    \/ \E p_frame \in ArgVals, ready \in BOOLEAN :
          Enter("transmission_ready", << p_frame, ready >>)
    \/ VoidLoop("transmission_ready", m_transmission_ready_hooks)

nrf_802154_core_hooks_transmitted ==
    \/ \E p_frame \in ArgVals : Enter("transmitted", << p_frame >>)
    \/ VoidLoop("transmitted", m_transmitted_hooks)

nrf_802154_core_hooks_tx_failed ==
    \/ \E p_frame \in ArgVals, error \in ArgVals :
          Enter("tx_failed", << p_frame, error >>)
    \/ BoolLoop("tx_failed", m_tx_failed_hooks)

nrf_802154_core_hooks_tx_started ==
    \/ \E p_frame \in ArgVals : Enter("tx_started", << p_frame >>)
    \/ BoolLoop("tx_started", m_tx_started_hooks)

nrf_802154_core_hooks_rx_started ==
    \/ \E p_frame \in ArgVals : Enter("rx_started", << p_frame >>)
    \/ VoidLoop("rx_started", m_rx_started_hooks)

nrf_802154_core_hooks_rx_ack_started ==
    \/ Enter("rx_ack_started", << >>)
    \/ VoidLoop("rx_ack_started", m_rx_ack_started_hooks)

nrf_802154_core_hooks_prio_changed ==
    \/ \E old_prio \in ArgVals, new_prio \in ArgVals :
          Enter("prio_changed", << old_prio, new_prio >>)
    \/ VoidLoop("prio_changed", m_prio_changed_hooks)

----------------------------------------------------------------------------

Init ==
    /\ NRF_802154_CSMA_CA_ENABLED \in BOOLEAN
    /\ NRF_802154_ACK_TIMEOUT_ENABLED \in BOOLEAN
    /\ NRF_802154_DELAYED_TRX_ENABLED \in BOOLEAN
    /\ NRF_802154_IFS_ENABLED \in BOOLEAN
    /\ pc = "idle"
    /\ chan = "none"
    /\ args = << >>
    /\ i = 0
    /\ result = TRUE
    /\ calls = << >>
    /\ retval = << >>
    /\ stack = << >>
    /\ reentered = FALSE
    /\ prev = [chan |-> "none", calls |-> << >>, retval |-> << >>]

Next ==
    \/ nrf_802154_core_hooks_terminate
    \/ nrf_802154_core_hooks_pre_transmission
    \/ nrf_802154_core_hooks_transmission_ready
    \/ nrf_802154_core_hooks_transmitted
    \/ nrf_802154_core_hooks_tx_failed
    \/ nrf_802154_core_hooks_tx_started
    \/ nrf_802154_core_hooks_rx_started
    \/ nrf_802154_core_hooks_rx_ack_started
    \/ nrf_802154_core_hooks_prio_changed

Spec == Init /\ [][Next]_vars

\* The arguments an entry point can be given
ArgsOf(ch) ==
    CASE ch = "terminate"          -> ArgVals \X ArgVals
      [] ch = "pre_transmission"   -> ArgVals \X BOOLEAN \X ArgVals
      [] ch = "transmission_ready" -> ArgVals \X BOOLEAN
      [] ch = "transmitted"        -> { << f >> : f \in ArgVals }
      [] ch = "tx_failed"          -> ArgVals \X ArgVals
      [] ch = "tx_started"         -> { << f >> : f \in ArgVals }
      [] ch = "rx_started"         -> { << f >> : f \in ArgVals }
      [] ch = "rx_ack_started"     -> { << >> }
      [] ch = "prio_changed"       -> ArgVals \X ArgVals

Channels ==
    { "terminate", "pre_transmission", "transmission_ready", "transmitted",
      "tx_failed", "tx_started", "rx_started", "rx_ack_started", "prio_changed" }

\* A hook call without its arguments
WithoutArgs(c) == [ f \in (DOMAIN c) \ { "args" } |-> c[f] ]

\* What a caller observes of the call that has just returned
Outcome ==
    [ chan |-> chan,
      calls |-> [ k \in 1 .. Len(calls) |-> WithoutArgs(calls[k]) ],
      retval |-> retval ]

\* The caller enters an entry point again, the outcome of the call that has
\* just returned being kept for comparison with later calls.
EnterAgain ==
    /\ chan # "none"
    /\ prev' = Outcome
    /\ \E ch \in Channels : \E a \in ArgsOf(ch) : Begin(ch, a)

NextHistory == Next \/ EnterAgain

SpecHistory == Init /\ [][NextHistory]_vars

\* A step of the entry point that is executing
Running == pc # "idle" /\ Next

\* The entry points run synchronously on the caller's context: once entered,
\* the processor keeps executing the loop, and every hook called returns.
\* Nothing obliges the caller to enter an entry point.
SpecFair == Init /\ [][Next]_vars /\ WF_vars(Running)

----------------------------------------------------------------------------
\* Vocabulary of the properties

BoolChannels == { "terminate", "pre_transmission", "tx_failed", "tx_started" }

VoidChannels == { "transmission_ready", "transmitted", "rx_started",
                  "rx_ack_started", "prio_changed" }

\* The table an entry point walks
Table(ch) ==
    CASE ch = "terminate"          -> m_abort_hooks
      [] ch = "pre_transmission"   -> m_pre_transmission_hooks
      [] ch = "transmission_ready" -> m_transmission_ready_hooks
      [] ch = "transmitted"        -> m_transmitted_hooks
      [] ch = "tx_failed"          -> m_tx_failed_hooks
      [] ch = "tx_started"         -> m_tx_started_hooks
      [] ch = "rx_started"         -> m_rx_started_hooks
      [] ch = "rx_ack_started"     -> m_rx_ack_started_hooks
      [] ch = "prio_changed"       -> m_prio_changed_hooks
      [] OTHER                     -> << >>

NotNull(h) == h # NULL

\* The candidates of a channel: the hooks in its table
Candidates(ch) == SelectSeq(Table(ch), NotNull)

\* The hooks called so far by the current call, in order
Hooks(cs) == [ k \in 1 .. Len(cs) |-> cs[k].hook ]

IsPrefix(s, t) == Len(s) <= Len(t) /\ \A k \in 1 .. Len(s) : s[k] = t[k]

InSeq(h, s) == \E k \in 1 .. Len(s) : s[k] = h

\* The module a hook belongs to (the header that declares it)
ModuleOf(h) ==
    CASE h \in { "nrf_802154_csma_ca_abort", "nrf_802154_csma_ca_pretransmission",
                 "nrf_802154_csma_ca_tx_failed_hook", "nrf_802154_csma_ca_tx_started_hook",
                 "nrf_802154_csma_ca_prio_changed_hook" } -> "CSMA_CA"
      [] h \in { "nrf_802154_ack_timeout_abort", "nrf_802154_ack_timeout_transmitted_hook",
                 "nrf_802154_ack_timeout_tx_failed_hook",
                 "nrf_802154_ack_timeout_tx_started_hook",
                 "nrf_802154_ack_timeout_rx_ack_started_hook" } -> "ACK_TIMEOUT"
      [] h \in { "nrf_802154_delayed_trx_abort",
                 "nrf_802154_delayed_trx_rx_started_hook" } -> "DELAYED_TRX"
      [] h \in { "nrf_802154_ifs_abort", "nrf_802154_ifs_pretransmission",
                 "nrf_802154_ifs_transmitted_hook" } -> "IFS"
      [] h \in { "nrf_802154_tx_timeout_abort",
                 "nrf_802154_tx_timeout_transmission_ready" } -> "TX_TIMEOUT"
      [] OTHER -> "NONE"

\* The global priority order: CSMA/CA, ACK-timeout, delayed-TRX, IFS, TX-timeout
Priority(m) ==
    CASE m = "CSMA_CA"     -> 1
      [] m = "ACK_TIMEOUT" -> 2
      [] m = "DELAYED_TRX" -> 3
      [] m = "IFS"         -> 4
      [] m = "TX_TIMEOUT"  -> 5
      [] OTHER             -> 0

\* Whether a module is compiled in
IsEnabled(m) ==
    CASE m = "CSMA_CA"     -> NRF_802154_CSMA_CA_ENABLED
      [] m = "ACK_TIMEOUT" -> NRF_802154_ACK_TIMEOUT_ENABLED
      [] m = "DELAYED_TRX" -> NRF_802154_DELAYED_TRX_ENABLED
      [] m = "IFS"         -> NRF_802154_IFS_ENABLED
      [] m = "TX_TIMEOUT"  -> TRUE
      [] OTHER             -> FALSE

NoOptionalFeature ==
    /\ ~ NRF_802154_CSMA_CA_ENABLED
    /\ ~ NRF_802154_ACK_TIMEOUT_ENABLED
    /\ ~ NRF_802154_DELAYED_TRX_ENABLED
    /\ ~ NRF_802154_IFS_ENABLED

\* The current call has returned to its caller
Returned(ch) == pc = "idle" /\ chan = ch

AllTrue(cs) == \A k \in 1 .. Len(cs) : cs[k].ret

TypeOK ==
    /\ flags \in BOOLEAN \X BOOLEAN \X BOOLEAN \X BOOLEAN
    /\ pc \in { "idle", "loop", "return" }
    /\ chan \in BoolChannels \cup VoidChannels \cup { "none" }
    /\ i \in 0 .. 5
    /\ result \in BOOLEAN
    /\ Len(calls) <= 5
    /\ retval \in { << >>, << TRUE >>, << FALSE >> }
    /\ stack = << >>
    /\ reentered = FALSE
    /\ prev.chan = "none"

----------------------------------------------------------------------------
\* C1: when a bool entry point (terminate, pre_transmission, tx_failed,
\* tx_started) has returned, in any build configuration and for any return
\* values of the hooks, the value it returned is true exactly when every
\* candidate of its table was called and returned true (in particular when
\* the table has no candidate), and false exactly when some candidate
\* returned false, that candidate being the last one called.
BoolChannelReturnsConjunction ==
    (pc = "idle" /\ chan \in BoolChannels) =>
        /\ Len(retval) = 1
        /\ (Candidates(chan) = << >> => retval = << TRUE >>)
        /\ retval = << TRUE >> <=>
              (Hooks(calls) = Candidates(chan) /\ AllTrue(calls))
        /\ retval = << FALSE >> <=>
              (\E k \in 1 .. Len(calls) :
                  /\ ~ calls[k].ret
                  /\ k = Len(calls)
                  /\ \A j \in 1 .. k - 1 : calls[j].ret)

\* tx_failed with both of its candidates compiled in has returned false
\* because its first candidate returned true and its second returned false
WitnessBoolChannelReturnsConjunction ==
    /\ Returned("tx_failed")
    /\ Len(Candidates("tx_failed")) = 2
    /\ Len(calls) = 2
    /\ calls[1].ret
    /\ ~ calls[2].ret
    /\ retval = << FALSE >>

\* C2: in one call of a bool entry point, a hook that returned false is the
\* last hook called by that call, and the call then returns false; with
\* three or more candidates of which the first returns false, only the
\* first is called.
ShortCircuitOnFalse ==
    chan \in BoolChannels =>
        /\ \A k \in 1 .. Len(calls) : (~ calls[k].ret) => k = Len(calls)
        /\ (calls # << >> /\ ~ calls[Len(calls)].ret) =>
              /\ pc # "loop"
              /\ pc = "idle" => retval = << FALSE >>
        /\ (Len(Candidates(chan)) >= 3 /\ calls # << >> /\ ~ calls[1].ret) =>
              Hooks(calls) = << Candidates(chan)[1] >>

\* terminate with candidates [A, B, C, ...] returned false after calling A alone
WitnessShortCircuitOnFalse ==
    /\ Returned("terminate")
    /\ Len(Candidates("terminate")) >= 3
    /\ Len(calls) = 1
    /\ ~ calls[1].ret
    /\ retval = << FALSE >>

\* C3: one call of a void entry point (transmission_ready, transmitted,
\* rx_started, rx_ack_started, prio_changed) calls every candidate of its
\* table exactly once, in table order, then returns; with no candidate it
\* calls nothing.
FanOutCallsEveryCandidateOnce ==
    chan \in VoidChannels =>
        /\ IsPrefix(Hooks(calls), Candidates(chan))
        /\ \A j, k \in 1 .. Len(calls) : calls[j].hook = calls[k].hook => j = k
        /\ pc \in { "return", "idle" } => Hooks(calls) = Candidates(chan)
        /\ pc = "idle" => retval = << >>

\* transmitted has returned after calling both of its candidates
WitnessFanOutCallsEveryCandidateOnce ==
    /\ Returned("transmitted")
    /\ Hooks(calls) = << "nrf_802154_ack_timeout_transmitted_hook",
                         "nrf_802154_ifs_transmitted_hook" >>

\* C4: in every entry point and build configuration the hooks called by one
\* call are in the order CSMA/CA, ACK-timeout, delayed-TRX, IFS, TX-timeout:
\* each hook called belongs to a module of strictly lower priority than the
\* hook called before it, so none is called twice.
CallsFollowPriorityOrder ==
    /\ \A k \in 1 .. Len(calls) : Priority(ModuleOf(calls[k].hook)) \in 1 .. 5
    /\ \A j, k \in 1 .. Len(calls) :
          j < k => Priority(ModuleOf(calls[j].hook)) < Priority(ModuleOf(calls[k].hook))
    /\ \A j, k \in 1 .. Len(calls) : j # k => calls[j].hook # calls[k].hook

\* terminate has called the abort hooks of all five modules
WitnessCallsFollowPriorityOrder ==
    /\ Returned("terminate")
    /\ Len(calls) = 5
    /\ ModuleOf(calls[1].hook) = "CSMA_CA"
    /\ ModuleOf(calls[5].hook) = "TX_TIMEOUT"

----------------------------------------------------------------------------
\* The hook each optional module has in each channel it implements:
\* << module, channel, hook >>
ModuleChannelHooks ==
    { << "CSMA_CA", "terminate", "nrf_802154_csma_ca_abort" >>,
      << "CSMA_CA", "pre_transmission", "nrf_802154_csma_ca_pretransmission" >>,
      << "CSMA_CA", "tx_failed", "nrf_802154_csma_ca_tx_failed_hook" >>,
      << "CSMA_CA", "tx_started", "nrf_802154_csma_ca_tx_started_hook" >>,
      << "CSMA_CA", "prio_changed", "nrf_802154_csma_ca_prio_changed_hook" >>,
      << "ACK_TIMEOUT", "terminate", "nrf_802154_ack_timeout_abort" >>,
      << "ACK_TIMEOUT", "transmitted", "nrf_802154_ack_timeout_transmitted_hook" >>,
      << "ACK_TIMEOUT", "tx_failed", "nrf_802154_ack_timeout_tx_failed_hook" >>,
      << "ACK_TIMEOUT", "tx_started", "nrf_802154_ack_timeout_tx_started_hook" >>,
      << "ACK_TIMEOUT", "rx_ack_started", "nrf_802154_ack_timeout_rx_ack_started_hook" >>,
      << "DELAYED_TRX", "terminate", "nrf_802154_delayed_trx_abort" >>,
      << "DELAYED_TRX", "rx_started", "nrf_802154_delayed_trx_rx_started_hook" >>,
      << "IFS", "terminate", "nrf_802154_ifs_abort" >>,
      << "IFS", "pre_transmission", "nrf_802154_ifs_pretransmission" >>,
      << "IFS", "transmitted", "nrf_802154_ifs_transmitted_hook" >> }

OptionalModules == { "CSMA_CA", "ACK_TIMEOUT", "DELAYED_TRX", "IFS" }

\* C5 as stated: with the four optional features disabled, every bool entry
\* point returns true and every void entry point calls no hook.
NoFeatureMeansNoCalls ==
    (NoOptionalFeature /\ pc = "idle" /\ chan # "none") =>
        /\ chan \in BoolChannels => retval = << TRUE >>
        /\ chan \in VoidChannels => calls = << >>

\* C5 amended: with the four optional features disabled, pre_transmission,
\* tx_failed and tx_started return true without calling a hook, and
\* transmitted, rx_started, rx_ack_started and prio_changed call no hook;
\* terminate calls the TX-timeout abort hook alone and returns what it
\* returned, and transmission_ready calls the TX-timeout hook alone, once.
NoFeatureLeavesTxTimeoutOnly ==
    (NoOptionalFeature /\ chan # "none") =>
        /\ chan \notin { "terminate", "transmission_ready" } =>
              /\ calls = << >>
              /\ (pc = "idle" /\ chan \in BoolChannels) => retval = << TRUE >>
        /\ chan = "terminate" =>
              /\ IsPrefix(Hooks(calls), << "nrf_802154_tx_timeout_abort" >>)
              /\ pc \in { "return", "idle" } => Len(calls) = 1
              /\ pc = "idle" => retval = << calls[1].ret >>
        /\ chan = "transmission_ready" =>
              /\ IsPrefix(Hooks(calls), << "nrf_802154_tx_timeout_transmission_ready" >>)
              /\ pc \in { "return", "idle" } => Len(calls) = 1

\* with no optional feature, terminate returned false: the TX-timeout abort
\* hook refused
WitnessNoFeatureLeavesTxTimeoutOnly ==
    /\ NoOptionalFeature
    /\ Returned("terminate")
    /\ Hooks(calls) = << "nrf_802154_tx_timeout_abort" >>
    /\ retval = << FALSE >>

\* C6: for every optional module M and channel C, M has a hook among the
\* candidates of C exactly when M implements C (per the list: CSMA/CA in
\* terminate, pre_transmission, tx_failed, tx_started, prio_changed;
\* ACK-timeout in terminate, transmitted, tx_failed, tx_started,
\* rx_ack_started; delayed-TRX in terminate, rx_started; IFS in terminate,
\* pre_transmission, transmitted) and M's flag is enabled, and that hook is
\* M's hook for C; no call ever invokes a hook of a disabled module.
HookPresentIffFlagEnabled ==
    /\ \A t \in ModuleChannelHooks :
          InSeq(t[3], Candidates(t[2])) <=> IsEnabled(t[1])
    /\ \A ch \in BoolChannels \cup VoidChannels :
          \A k \in 1 .. Len(Candidates(ch)) :
              ModuleOf(Candidates(ch)[k]) \in OptionalModules =>
                  << ModuleOf(Candidates(ch)[k]), ch, Candidates(ch)[k] >>
                      \in ModuleChannelHooks
    /\ \A k \in 1 .. Len(calls) : IsEnabled(ModuleOf(calls[k].hook))

\* with ACK-timeout enabled and IFS disabled, transmitted has returned after
\* calling the ACK-timeout hook alone
WitnessHookPresentIffFlagEnabled ==
    /\ NRF_802154_ACK_TIMEOUT_ENABLED
    /\ ~ NRF_802154_IFS_ENABLED
    /\ Returned("transmitted")
    /\ Hooks(calls) = << "nrf_802154_ack_timeout_transmitted_hook" >>

\* C7: in every build configuration, every call of transmission_ready calls
\* the TX-timeout transmission_ready hook exactly once, and the TX-timeout
\* abort hook is the last candidate of terminate (and occurs there once).
TxTimeoutAlwaysPresent ==
    /\ chan = "transmission_ready" =>
          /\ IsPrefix(Hooks(calls), << "nrf_802154_tx_timeout_transmission_ready" >>)
          /\ pc \in { "return", "idle" } =>
                Hooks(calls) = << "nrf_802154_tx_timeout_transmission_ready" >>
    /\ LET c == Candidates("terminate") IN
          /\ c # << >>
          /\ \A k \in 1 .. Len(c) : c[k] = "nrf_802154_tx_timeout_abort" <=> k = Len(c)

\* with every optional feature enabled, transmission_ready has returned after
\* its one call
WitnessTxTimeoutAlwaysPresent ==
    /\ NRF_802154_CSMA_CA_ENABLED
    /\ NRF_802154_ACK_TIMEOUT_ENABLED
    /\ NRF_802154_DELAYED_TRX_ENABLED
    /\ NRF_802154_IFS_ENABLED
    /\ Returned("transmission_ready")
    /\ Len(calls) = 1

ScenarioAOrder ==
    << "nrf_802154_csma_ca_abort", "nrf_802154_ack_timeout_abort",
       "nrf_802154_tx_timeout_abort" >>

\* What scenario A says of a terminate call
ScenarioAHolds ==
    /\ IsPrefix(Hooks(calls), ScenarioAOrder)
    /\ (pc = "idle" /\ retval = << TRUE >>) => Hooks(calls) = ScenarioAOrder
    /\ (calls # << >> /\ ~ calls[1].ret) =>
          /\ Len(calls) = 1
          /\ pc # "loop"
          /\ pc = "idle" => retval = << FALSE >>

\* C8 as stated: with CSMA/CA and ACK-timeout enabled and IFS disabled,
\* terminate calls csmaAbort, ackTimeoutAbort, txTimeoutAbort in that order,
\* and when csmaAbort returns false it calls no other hook and returns false.
ScenarioAAsStated ==
    ( /\ NRF_802154_CSMA_CA_ENABLED
      /\ NRF_802154_ACK_TIMEOUT_ENABLED
      /\ ~ NRF_802154_IFS_ENABLED
      /\ chan = "terminate" ) => ScenarioAHolds

\* C8 amended: with CSMA/CA and ACK-timeout enabled and delayed-TRX and IFS
\* disabled, terminate calls csmaAbort, ackTimeoutAbort, txTimeoutAbort in
\* that order, and when csmaAbort returns false it calls no other hook and
\* returns false.
ScenarioAWithoutDelayedTrx ==
    ( /\ NRF_802154_CSMA_CA_ENABLED
      /\ NRF_802154_ACK_TIMEOUT_ENABLED
      /\ ~ NRF_802154_DELAYED_TRX_ENABLED
      /\ ~ NRF_802154_IFS_ENABLED
      /\ chan = "terminate" ) =>
        /\ Candidates("terminate") = ScenarioAOrder
        /\ ScenarioAHolds

\* in that configuration csmaAbort returned false and terminate returned false
WitnessScenarioAWithoutDelayedTrx ==
    /\ NRF_802154_CSMA_CA_ENABLED
    /\ NRF_802154_ACK_TIMEOUT_ENABLED
    /\ ~ NRF_802154_DELAYED_TRX_ENABLED
    /\ ~ NRF_802154_IFS_ENABLED
    /\ Returned("terminate")
    /\ Hooks(calls) = << "nrf_802154_csma_ca_abort" >>
    /\ retval = << FALSE >>

\* C9: pre_transmission calls no hook other than the CSMA/CA and IFS
\* pretransmission hooks; when CSMA/CA and IFS are both disabled (so also
\* when no optional feature is enabled) it calls no hook and returns true,
\* whatever the frame, the cca value and the notify function.
PreTransmissionVacuous ==
    chan = "pre_transmission" =>
        /\ \A k \in 1 .. Len(calls) :
              calls[k].hook \in { "nrf_802154_csma_ca_pretransmission",
                                  "nrf_802154_ifs_pretransmission" }
        /\ (~ NRF_802154_CSMA_CA_ENABLED /\ ~ NRF_802154_IFS_ENABLED) =>
              /\ calls = << >>
              /\ pc = "idle" => retval = << TRUE >>

\* with ACK-timeout and delayed-TRX enabled but CSMA/CA and IFS disabled,
\* pre_transmission(frame 1, cca false, notify 1) returned true with no call
WitnessPreTransmissionVacuous ==
    /\ ~ NRF_802154_CSMA_CA_ENABLED
    /\ ~ NRF_802154_IFS_ENABLED
    /\ NRF_802154_ACK_TIMEOUT_ENABLED
    /\ NRF_802154_DELAYED_TRX_ENABLED
    /\ Returned("pre_transmission")
    /\ args = << 1, FALSE, 1 >>
    /\ calls = << >>
    /\ retval = << TRUE >>

\* C10: the calls of rx_ack_started are determined by the ACK-timeout flag
\* alone (the ACK-timeout hook once when it is set, nothing otherwise) and
\* the calls of rx_started by the delayed-TRX flag alone; so with ACK-timeout
\* the only feature, rx_ack_started calls the ACK-timeout hook once and
\* rx_started calls nothing.
RxChannelsDependOnOwnFlag ==
    /\ chan = "rx_ack_started" =>
          LET expected == IF NRF_802154_ACK_TIMEOUT_ENABLED
                          THEN << "nrf_802154_ack_timeout_rx_ack_started_hook" >>
                          ELSE << >>
          IN  /\ IsPrefix(Hooks(calls), expected)
              /\ pc \in { "return", "idle" } => Hooks(calls) = expected
    /\ chan = "rx_started" =>
          LET expected == IF NRF_802154_DELAYED_TRX_ENABLED
                          THEN << "nrf_802154_delayed_trx_rx_started_hook" >>
                          ELSE << >>
          IN  /\ IsPrefix(Hooks(calls), expected)
              /\ pc \in { "return", "idle" } => Hooks(calls) = expected

\* with ACK-timeout the only feature, rx_started has returned without a call
WitnessRxChannelsDependOnOwnFlag ==
    /\ NRF_802154_ACK_TIMEOUT_ENABLED
    /\ ~ NRF_802154_CSMA_CA_ENABLED
    /\ ~ NRF_802154_DELAYED_TRX_ENABLED
    /\ ~ NRF_802154_IFS_ENABLED
    /\ Returned("rx_started")
    /\ calls = << >>

----------------------------------------------------------------------------
\* C11: with every feature enabled, tx_failed calls the CSMA/CA tx_failed
\* hook first and, only when that returned true, the ACK-timeout tx_failed
\* hook next; it calls no other hook (none of delayed-TRX, IFS, TX-timeout);
\* when the ACK-timeout hook returns false the result is false, and when the
\* CSMA/CA hook returns false the ACK-timeout hook is not called and the
\* result is false.
ScenarioDTxFailed ==
    ( /\ NRF_802154_CSMA_CA_ENABLED
      /\ NRF_802154_ACK_TIMEOUT_ENABLED
      /\ NRF_802154_DELAYED_TRX_ENABLED
      /\ NRF_802154_IFS_ENABLED
      /\ chan = "tx_failed" ) =>
        /\ IsPrefix(Hooks(calls), << "nrf_802154_csma_ca_tx_failed_hook",
                                     "nrf_802154_ack_timeout_tx_failed_hook" >>)
        /\ Len(calls) = 2 => calls[1].ret
        /\ (calls # << >> /\ ~ calls[1].ret) =>
              /\ Len(calls) = 1
              /\ pc # "loop"
              /\ pc = "idle" => retval = << FALSE >>
        /\ (calls # << >> /\ calls[1].ret /\ pc \in { "return", "idle" }) =>
              Len(calls) = 2
        /\ (Len(calls) = 2 /\ ~ calls[2].ret) =>
              /\ pc # "loop"
              /\ pc = "idle" => retval = << FALSE >>
        /\ pc \in { "return", "idle" } => calls # << >>

\* with every feature enabled, the CSMA/CA hook returned true, the
\* ACK-timeout hook returned false and tx_failed returned false
WitnessScenarioDTxFailed ==
    /\ NRF_802154_CSMA_CA_ENABLED
    /\ NRF_802154_ACK_TIMEOUT_ENABLED
    /\ NRF_802154_DELAYED_TRX_ENABLED
    /\ NRF_802154_IFS_ENABLED
    /\ Returned("tx_failed")
    /\ args = << 1, 1 >>
    /\ Len(calls) = 2
    /\ calls[1].ret
    /\ ~ calls[2].ret
    /\ retval = << FALSE >>

\* C16: terminate returns true only if the TX-timeout abort hook was called
\* in that call and returned true; in a terminate call that has left its
\* loop the TX-timeout abort hook was called exactly when every enabled
\* optional abort hook was called before it and returned true; the table of
\* terminate is never empty and terminate never returns without a call.
TerminateNeverVacuous ==
    /\ Candidates("terminate") # << >>
    /\ chan = "terminate" =>
          LET txto == { k \in 1 .. Len(calls) :
                           calls[k].hook = "nrf_802154_tx_timeout_abort" }
              optional == { t[3] : t \in { u \in ModuleChannelHooks :
                                              u[2] = "terminate" /\ IsEnabled(u[1]) } }
              before(k) == { calls[j].hook : j \in 1 .. k - 1 }
          IN  /\ \A k \in txto :
                    /\ k = Len(calls)
                    /\ before(k) = optional
                    /\ \A j \in 1 .. k - 1 : calls[j].ret
              /\ pc \in { "return", "idle" } =>
                    /\ calls # << >>
                    /\ txto # { } <=>
                          /\ optional \subseteq { calls[j].hook : j \in 1 .. Len(calls) }
                          /\ \A j \in 1 .. Len(calls) :
                                calls[j].hook \in optional => calls[j].ret
              /\ (pc = "idle" /\ retval = << TRUE >>) =>
                    /\ txto # { }
                    /\ \A k \in txto : calls[k].ret

\* with no optional feature, terminate returned true after the TX-timeout
\* abort hook, its only candidate, returned true
WitnessTerminateNeverVacuous ==
    /\ NoOptionalFeature
    /\ Returned("terminate")
    /\ Hooks(calls) = << "nrf_802154_tx_timeout_abort" >>
    /\ calls[1].ret
    /\ retval = << TRUE >>

----------------------------------------------------------------------------
\* C13: every hook called during a call of an entry point receives exactly
\* the arguments the caller passed to the entry point, the same for every
\* hook of the call; the functions the entry point calls are entries of its
\* own table only (so never the notify function it was passed), and the
\* arguments of the call do not change while it runs.
ArgumentsPassedThrough ==
    /\ \A k \in 1 .. Len(calls) :
          /\ calls[k].args = args
          /\ InSeq(calls[k].hook, Candidates(chan))
    /\ \A j, k \in 1 .. Len(calls) : calls[j].args = calls[k].args
    /\ chan = "terminate" => args \in ArgVals \X ArgVals
    /\ chan = "pre_transmission" => args \in ArgVals \X BOOLEAN \X ArgVals
    /\ chan = "transmission_ready" => args \in ArgVals \X BOOLEAN
    /\ chan \in { "tx_failed", "prio_changed" } => args \in ArgVals \X ArgVals
    /\ chan \in { "transmitted", "tx_started", "rx_started" } =>
          Len(args) = 1 /\ args[1] \in ArgVals
    /\ chan = "rx_ack_started" => args = << >>

\* pre_transmission(frame 0, cca true, notify 1) has called both of its
\* hooks with those arguments
WitnessArgumentsPassedThrough ==
    /\ Returned("pre_transmission")
    /\ args = << 0, TRUE, 1 >>
    /\ Len(calls) = 2
    /\ calls[1].args = << 0, TRUE, 1 >>
    /\ calls[2].args = << 0, TRUE, 1 >>

\* The index at which a walk of the table stops when no hook stops it: the
\* index of the first NULL entry, or the length of the table
StopIndex(table) ==
    IF \E k \in 1 .. Len(table) : table[k] = NULL
    THEN (CHOOSE k \in 1 .. Len(table) :
             table[k] = NULL /\ \A j \in 1 .. k - 1 : table[j] # NULL) - 1
    ELSE Len(table)

\* C17: in every build configuration and entry point the loop never calls a
\* NULL entry nor anything read from beyond the table, its index never
\* passes the first NULL entry nor the table's length, and a walk no hook
\* stops ends at the first NULL entry or at the table's end, whichever comes
\* first (the end for terminate and transmission_ready, index 0 for a table
\* that is the NULL terminator alone).
LoopStaysInsideTable ==
    chan # "none" =>
        /\ \A k \in 1 .. Len(calls) : calls[k].hook \notin { NULL, OUT_OF_BOUNDS }
        /\ i <= StopIndex(Table(chan))
        /\ StopIndex(Table(chan)) <= Len(Table(chan))
        /\ \A k \in 1 .. Len(calls) : calls[k].hook = Table(chan)[k]
        /\ Len(calls) \in { i, i + 1 }
        /\ (pc \in { "return", "idle" } /\ (chan \in VoidChannels \/ result)) =>
              /\ i = StopIndex(Table(chan))
              /\ Len(calls) = i
        /\ chan \in { "terminate", "transmission_ready" } =>
              StopIndex(Table(chan)) = Len(Table(chan))
        /\ chan \notin { "terminate", "transmission_ready" } =>
              StopIndex(Table(chan)) = Len(Table(chan)) - 1

\* terminate walked its whole table, which has no NULL entry, and left the
\* loop with its index equal to the table's length
WitnessLoopStaysInsideTable ==
    /\ Returned("terminate")
    /\ \A k \in 1 .. Len(m_abort_hooks) : m_abort_hooks[k] # NULL
    /\ i = Len(m_abort_hooks)
    /\ Len(calls) = i
    /\ retval = << TRUE >>

----------------------------------------------------------------------------
\* The number of hook calls the claim allows one call of a channel
MaxCallsOf(ch) ==
    CASE ch = "terminate" -> 5
      [] ch \in { "pre_transmission", "transmitted", "tx_failed", "tx_started" } -> 2
      [] OTHER -> 1

\* C14: every hook returning, every call of each of the nine entry points
\* eventually returns to its caller, and it makes at most as many hook calls
\* as its channel has candidates in the build configuration: at most 5 for
\* terminate, 2 for pre_transmission, transmitted, tx_failed and tx_started,
\* 1 for the others.
EveryCallReturns ==
    /\ [] ( chan # "none" =>
               /\ Len(calls) <= Len(Candidates(chan))
               /\ Len(Candidates(chan)) <= MaxCallsOf(chan) )
    /\ \A ch \in BoolChannels \cup VoidChannels :
          (chan = ch /\ pc # "idle") ~> Returned(ch)

\* tx_started has returned true after calling both of its candidates
WitnessEveryCallReturns ==
    /\ Returned("tx_started")
    /\ Len(calls) = 2
    /\ Len(calls) = Len(Candidates("tx_started"))
    /\ retval = << TRUE >>

----------------------------------------------------------------------------
\* Two calls were given the same return values by the candidates: a hook
\* called in both returned the same value in both
SameReturnValues(a, b) ==
    \A j \in 1 .. Len(a) : \A k \in 1 .. Len(b) :
        (a[j].hook = b[k].hook /\ "ret" \in DOMAIN a[j]) => a[j].ret = b[k].ret

\* C12: the engine keeps no state between calls: when a call of a channel
\* has returned and an earlier call of the same channel (with any calls in
\* between) got the same return values from the candidates, both made the
\* same hook calls in the same order and returned the same value; no step
\* changes the candidate sequence of any of the nine channels.
DispatchIsStateless ==
    /\ [] ( (pc = "idle" /\ chan # "none" /\ prev.chan = chan
                /\ SameReturnValues(prev.calls, Outcome.calls))
              => prev = Outcome )
    /\ [][ \A ch \in Channels : Candidates(ch)' = Candidates(ch) ]_vars

\* terminate has returned false at its second hook for the second time
WitnessDispatchIsStateless ==
    /\ Returned("terminate")
    /\ prev.chan = "terminate"
    /\ Len(calls) = 2
    /\ ~ calls[2].ret
    /\ prev = Outcome

----------------------------------------------------------------------------
\* Reentrant dispatch: a hook that is executing calls an entry point

\* The depth to which hooks nest calls of entry points
MaxDepth == 1

\* The arguments hooks give the entry points they call: every opaque value
\* is 0, the booleans are free (arguments are passed on, never inspected).
NestedArgsOf(ch) ==
    CASE ch = "terminate"          -> { << 0, 0 >> }
      [] ch = "pre_transmission"   -> { << 0, cca, 0 >> : cca \in BOOLEAN }
      [] ch = "transmission_ready" -> { << 0, ready >> : ready \in BOOLEAN }
      [] ch = "transmitted"        -> { << 0 >> }
      [] ch = "tx_failed"          -> { << 0, 0 >> }
      [] ch = "tx_started"         -> { << 0 >> }
      [] ch = "rx_started"         -> { << 0 >> }
      [] ch = "rx_ack_started"     -> { << >> }
      [] ch = "prio_changed"       -> { << 0, 0 >> }

\* The hook table[i] of the running call, before it returns, calls an entry
\* point: the running call's parameters and locals stay in its stack frame
\* and the entry point starts on a new one.
HookReenters ==
    /\ pc = "loop"
    /\ i < NbHooks(Table(chan))
    /\ At(Table(chan), i) # NULL
    /\ Len(stack) < MaxDepth
    /\ stack' = Append(stack, [chan |-> chan, args |-> args, i |-> i,
                               result |-> result, calls |-> calls])
    /\ \E ch \in Channels : \E a \in NestedArgsOf(ch) :
          /\ chan' = ch
          /\ args' = a
    /\ pc' = "loop"
    /\ i' = 0
    /\ result' = TRUE
    /\ calls' = << >>
    /\ UNCHANGED << flags, retval, reentered, prev >>

\* Mutant: the loop index shared by all activations (a static `i`)
NestedReturn_SharedIndex ==
    /\ pc = "return"
    /\ stack # << >>
    /\ LET f == stack[Len(stack)] IN
          /\ chan' = f.chan
          /\ args' = f.args
          /\ i' = i
          /\ result' = f.result
          /\ calls' = f.calls
    /\ pc' = "loop"
    /\ stack' = SubSeq(stack, 1, Len(stack) - 1)
    /\ reentered' = TRUE
    /\ UNCHANGED << flags, retval, prev >>

\* The nested call returns to the hook that made it: the suspended call's
\* frame is the current one again, its hook still executing.
NestedReturn ==
    /\ pc = "return"
    /\ stack # << >>
    /\ LET f == stack[Len(stack)] IN
          /\ chan' = f.chan
          /\ args' = f.args
          /\ i' = f.i
          /\ result' = f.result
          /\ calls' = f.calls
    /\ pc' = "loop"
    /\ stack' = SubSeq(stack, 1, Len(stack) - 1)
    /\ reentered' = TRUE
    /\ UNCHANGED << flags, retval, prev >>

NextReentrant == Next \/ HookReenters \/ NestedReturn

SpecReentrant == Init /\ [][NextReentrant]_vars

\* A call (running, suspended or returned) is where a call that no nested
\* call interrupted would be: it has called the first candidates of its
\* channel in order, each once; while in its loop it has called i of them,
\* all of which returned true; once out of its loop a void call has called
\* them all, and a bool call has the return value of the last hook called as
\* its result, having called them all if that is true.
CallOnCourse(ch, idx, res, cs, at) ==
    /\ IsPrefix(Hooks(cs), Candidates(ch))
    /\ ch \in BoolChannels =>
          \A k \in 1 .. Len(cs) - 1 : cs[k].ret
    /\ at = "loop" =>
          /\ Len(cs) = idx
          /\ ch \in BoolChannels => AllTrue(cs)
    /\ at # "loop" =>
          /\ ch \in VoidChannels => Hooks(cs) = Candidates(ch)
          /\ ch \in BoolChannels =>
                /\ res = AllTrue(cs)
                /\ res => Hooks(cs) = Candidates(ch)

\* C15: when a hook called by an entry point calls an entry point itself,
\* the nested call calls the candidates of its own channel in order and has
\* its own result, and the suspended call resumes at the hook that nested,
\* then goes on to the next candidate, so that its hook calls and its result
\* are those of a call that nothing interrupted.
DispatchIsReentrant ==
    /\ chan # "none" => CallOnCourse(chan, i, result, calls, pc)
    /\ \A d \in 1 .. Len(stack) :
          /\ CallOnCourse(stack[d].chan, stack[d].i, stack[d].result,
                          stack[d].calls, "loop")
          /\ stack[d].i < Len(Candidates(stack[d].chan))
    /\ (pc = "idle" /\ chan \in BoolChannels) => retval = << result >>
    /\ pc = "idle" => stack = << >>

\* terminate, one of whose hooks called an entry point before returning
\* true, has called three or more hooks and returned true
WitnessDispatchIsReentrant ==
    /\ Returned("terminate")
    /\ reentered
    /\ Len(calls) >= 3
    /\ retval = << TRUE >>

====
